---- MODULE Spec2Model ----
(***************************************************************************)
(* State-machine model of app.py, the NFSU Goa student dashboard:          *)
(* main() re-runs from the top on every user interaction; it loads the     *)
(* roster, assigns houses (assign_houses), and renders one of three pages. *)
(***************************************************************************)
EXTENDS Integers, Sequences, FiniteSets, TLC

\* ------------------------------------------------------------------ bounds
\* Largest roster (rows of the combined table) of the whole-application runs.
MaxRows == 2
\* Largest roster handed to assign_houses when it is checked on its own.
MaxGroupRows == 5
\* Largest number of earlier assignments the counters handed to
\* assign_houses on its own may already record.
MaxStart == 2

\* ------------------------------------------------------------ configuration
\* HOUSE_COLORS.keys(), in the dict's insertion (iteration) order.
HouseSeq == <<"House A", "House B", "House C", "House D">>
Houses == {HouseSeq[k] : k \in 1..Len(HouseSeq)}
\* len(HOUSE_COLORS) is what the literal 4 of `i % 4` stands for.
NumHouses == 4
\* The slice bounds of f"{stream[:25]}-{gender[:5]}".
SheetStreamLen == 25
SheetGenderLen == 5
\* assigned_df["House"] = None
None == "None"
\* A blank spreadsheet cell, as pandas reads it.
NaN == "NaN"
correct_password == "nfsu@123"
required_cols == {"Enrollment No", "Stream", "Student Name", "Gender", "Semester"}
default_cols == {"Enrollment No", "Student Name", "Email-ID"}
CounterGenders == {"M", "F"}

\* ------------------------------------------------------------------ inputs
\* File base names ("Stream"), listed in ascending string order; the first two
\* agree on their first 25 characters.
StreamSeq == <<"BTech-MTech CSE Cyber Security 2023",
               "BTech-MTech CSE Cyber Security 2024",
               "MBA">>
\* Semester cell values in ascending order (written as strings, so that a
\* blank cell can stand beside them), then the blank cell.
SemesterSeq == <<"1", "2", NaN>>
\* Gender cell values in ascending string order, then the blank cell.
GenderSeq == <<"F", "M", "O", NaN>>
Passwords == {"", "nfsu@123", "nfsu@12", "NFSU@123", "nfsu@1234"}

Range(s) == {s[k] : k \in 1..Len(s)}
Pos(s, v) == CHOOSE k \in 1..Len(s) : s[k] = v
Min(a, b) == IF a < b THEN a ELSE b

\* The row kinds of the whole-application rosters and of the rosters handed
\* to assign_houses on its own.
AppKinds == [Stream : Range(StreamSeq), Semester : {"1", NaN}, Gender : Range(GenderSeq)]
AssignKinds == [Stream : {"MBA"}, Semester : {"1", "2"}, Gender : {"M", "F"}]

\* Rows are listed in a canonical order: the program never depends on the
\* order of the rows, only on the index as a row's identity.
KindRank(r) ==
    (Pos(StreamSeq, r.Stream) * 100) + (Pos(SemesterSeq, r.Semester) * 10)
        + Pos(GenderSeq, r.Gender)
Tables(kinds, n) ==
    UNION {{t \in [1..m -> kinds] :
                \A k \in 1..(m - 1) : KindRank(t[k]) <= KindRank(t[k + 1])}
           : m \in 0..n}
\* "Enrollment No" of the row at index idx.
EnrollmentNo(idx) == 2300 + idx

ZeroCounts == [g \in CounterGenders |-> [h \in Houses |-> 0]]

VARIABLES
    dirExists,      \* os.path.exists(DATA_FOLDER)
    columns,        \* df.columns of the loaded table
    df,             \* the loaded table: sequence of rows, index 1..Len(df)
    pc,             \* position of the current run of main()
    menu,           \* the sidebar radio's value
    global_house_counts,
    start_counts,   \* the counters as they were when assign_houses was called
    prev_counts,    \* the counters as the run before this one left them
    assigned_df,    \* the House column of assigned_df, <<>> before the call
    groups,         \* group keys df.groupby has still to yield
    students, house_order, i, gender,   \* locals of the group being assigned
    password, granted, shown, page,     \* the gate and what the run displayed
    selected, filtered,                 \* the page's filter widgets and result
    workbook        \* sheets written by get_excel_download

vars == <<dirExists, columns, df, pc, menu, global_house_counts, start_counts,
          prev_counts, assigned_df, groups, students, house_order, i, gender, password,
          granted, shown, page, selected, filtered, workbook>>

\* ----------------------------------------------------------- assign_houses
\* df.groupby([...]) yields the distinct keys in ascending order and drops
\* the rows whose key has a blank component (dropna=True).
GroupKeys(t) ==
    {<<t[k].Stream, t[k].Semester, t[k].Gender>> : k \in
        {j \in 1..Len(t) : t[j].Semester /= NaN /\ t[j].Gender /= NaN}}
KeyRank(key) ==
    (Pos(StreamSeq, key[1]) * 100) + (Pos(SemesterSeq, key[2]) * 10)
        + Pos(GenderSeq, key[3])
RECURSIVE SortKeys(_)
SortKeys(S) ==
    IF S = {} THEN <<>>
    ELSE LET m == CHOOSE a \in S : \A b \in S : KeyRank(a) <= KeyRank(b)
         IN <<m>> \o SortKeys(S \ {m})
GroupIndex(t, key) ==
    {k \in 1..Len(t) : <<t[k].Stream, t[k].Semester, t[k].Gender>> = key}

\* random.shuffle(students): any order of the group's row indices.
Shuffles(S) ==
    {s \in [1..Cardinality(S) -> S] : \A a, b \in 1..Cardinality(S) : a /= b => s[a] /= s[b]}

\* sorted(HOUSE_COLORS.keys(), key=lambda h: counts[h]): a stable sort, so
\* equal counters keep the palette order.
HouseOrderDescending(c) ==
    [k \in 1..NumHouses |->
        CHOOSE h \in Houses :
            Cardinality({o \in Houses :
                c[o] > c[h] \/ (c[o] = c[h] /\ Pos(HouseSeq, o) < Pos(HouseSeq, h))}) = k - 1]
HouseOrderUnsorted(c) == HouseSeq
HouseOrder(c) ==
    [k \in 1..NumHouses |->
        CHOOSE h \in Houses :
            Cardinality({o \in Houses :
                c[o] < c[h] \/ (c[o] = c[h] /\ Pos(HouseSeq, o) < Pos(HouseSeq, h))}) = k - 1]

\* house_cycle[i % 4], house_cycle being house_order repeated.
HouseAtNoWrap(order, n) == order[(n % (NumHouses - 1)) + 1]
HouseAt(order, n) == order[(n % NumHouses) + 1]

\* global_house_counts[gender][house] += 1
IncrementAnyGender(c, g, h) == [x \in DOMAIN c |-> [c[x] EXCEPT ![h] = @ + 1]]
Increment(c, g, h) == [c EXCEPT ![g][h] = @ + 1]

\* Lines 42-43: the copy with an empty House column; the groupby is set up.
EnterAssign(t, c) ==
    /\ assigned_df' = [k \in 1..Len(t) |-> None]
    /\ groups' = SortKeys(GroupKeys(t))
    /\ global_house_counts' = c
    /\ start_counts' = c
    /\ students' = <<>>
    /\ house_order' = <<>>
    /\ i' = 0
    /\ gender' = None

\* Lines 44-48: the next group is taken, shuffled, and its house order fixed.
AssignBeginGroup ==
    /\ pc = "assign"
    /\ i = Len(students)
    /\ groups /= <<>>
    /\ Head(groups)[3] \in DOMAIN global_house_counts
    /\ \E s \in Shuffles(GroupIndex(df, Head(groups))) : students' = s
    /\ gender' = Head(groups)[3]
    /\ house_order' = HouseOrder(global_house_counts[Head(groups)[3]])
    /\ groups' = Tail(groups)
    /\ i' = 0
    /\ UNCHANGED <<dirExists, columns, df, pc, menu, global_house_counts, start_counts,
                   prev_counts, assigned_df, password, granted, shown, page, selected, filtered,
                   workbook>>

\* Line 47 with a gender the counters have no entry for: KeyError, which
\* nothing catches; the run ends there.
AssignKeyError ==
    /\ pc = "assign"
    /\ i = Len(students)
    /\ groups /= <<>>
    /\ Head(groups)[3] \notin DOMAIN global_house_counts
    /\ pc' = "raised"
    /\ shown' = shown \cup {"KeyError"}
    /\ UNCHANGED <<dirExists, columns, df, menu, global_house_counts, start_counts,
                   prev_counts, assigned_df, groups, students, house_order, i, gender, password,
                   granted, page, selected, filtered, workbook>>

\* Lines 49-52: one iteration of the inner loop.
AssignOne ==
    /\ pc = "assign"
    /\ i < Len(students)
    /\ LET house == HouseAt(house_order, i)
       IN /\ assigned_df' = [assigned_df EXCEPT ![students[i + 1]] = house]
          /\ global_house_counts' = Increment(global_house_counts, gender, house)
    /\ i' = i + 1
    /\ UNCHANGED <<dirExists, columns, df, pc, menu, start_counts, prev_counts, groups,
                   students,
                   house_order, gender, password, granted, shown, page, selected,
                   filtered, workbook>>

\* Line 53: the loops are over; the locals go away with the frame.
AssignReturn ==
    /\ pc = "assign"
    /\ i = Len(students)
    /\ groups = <<>>
    /\ pc' = "assigned"
    /\ students' = <<>>
    /\ house_order' = <<>>
    /\ i' = 0
    /\ gender' = None
    /\ UNCHANGED <<dirExists, columns, df, menu, global_house_counts, start_counts,
                   prev_counts, assigned_df, groups, password, granted, shown, page, selected,
                   filtered, workbook>>

\* ------------------------------------- assign_houses checked on its own
StartVectors ==
    {c \in [Houses -> 0..MaxStart] :
        c["House A"] + c["House B"] + c["House C"] + c["House D"] <= MaxStart}
NoSelection == [streams |-> {}, sems |-> {}, genders |-> {}]

InitAssign ==
    /\ dirExists = TRUE
    /\ columns = required_cols \cup {"Email-ID"}
    /\ df \in Tables(AssignKinds, MaxGroupRows)
    /\ pc = "assign"
    /\ menu = "House Distribution"
    /\ \E c \in StartVectors :
          /\ global_house_counts = [g \in CounterGenders |-> c]
          /\ start_counts = [g \in CounterGenders |-> c]
    /\ prev_counts = ZeroCounts
    /\ assigned_df = [k \in 1..Len(df) |-> None]
    /\ groups = SortKeys(GroupKeys(df))
    /\ students = <<>>
    /\ house_order = <<>>
    /\ i = 0
    /\ gender = None
    /\ password = ""
    /\ granted = "unevaluated"
    /\ shown = {}
    /\ page = "none"
    /\ selected = NoSelection
    /\ filtered = {}
    /\ workbook = <<>>

NextAssign == AssignBeginGroup \/ AssignOne \/ AssignReturn
SpecAssign == InitAssign /\ [][NextAssign]_vars

\* ------------------------------------------------------ get_excel_download
\* gender_df[display_cols].sort_values("House"): the rows of one stream and
\* gender as (Enrollment No, House), by house label; rows of one house keep
\* their table order.
\* The place of a House cell in sort_values' order: a missing value goes last.
HouseRank(h) == IF h = None THEN NumHouses + 1 ELSE Pos(HouseSeq, h)
RECURSIVE SortByHouse(_, _)
SortByHouse(S, houseCol) ==
    IF S = {} THEN <<>>
    ELSE LET m == CHOOSE a \in S : \A b \in S :
                     \/ HouseRank(houseCol[a]) < HouseRank(houseCol[b])
                     \/ (houseCol[a] = houseCol[b] /\ a <= b)
         IN <<<<EnrollmentNo(m), houseCol[m]>>>> \o SortByHouse(S \ {m}, houseCol)

\* f"{stream[:25]}-{gender[:5]}"
SheetName(stream, g) ==
    SubSeq(stream, 1, Min(SheetStreamLen, Len(stream))) \o "-"
        \o SubSeq(g, 1, Min(SheetGenderLen, Len(g)))

\* export_df.to_excel(writer, sheet_name=...): a sheet of that name already
\* in the workbook is written over cell by cell, from its first row.
WriteSheet(book, name, rows) ==
    IF name \in DOMAIN book
    THEN [book EXCEPT ![name] =
            [k \in 1..(IF Len(rows) > Len(@) THEN Len(rows) ELSE Len(@)) |->
                IF k <= Len(rows) THEN rows[k] ELSE @[k]]]
    ELSE [n \in (DOMAIN book) \cup {name} |-> IF n = name THEN rows ELSE book[n]]

\* The (stream, gender) pairs in the order the two loops visit them.
ExportPairs(t) ==
    LET present == {t[k].Stream : k \in 1..Len(t)}
        ordered == SelectSeq(StreamSeq, LAMBDA x : x \in present)
    IN [n \in 1..(2 * Len(ordered)) |->
            <<ordered[(n + 1) \div 2], IF n % 2 = 1 THEN "M" ELSE "F">>]
RECURSIVE ExportFrom(_, _, _, _)
ExportFrom(book, pairs, t, houseCol) ==
    IF pairs = <<>> THEN book
    ELSE LET stream == Head(pairs)[1]
             g == Head(pairs)[2]
             gender_df == {k \in 1..Len(t) : t[k].Stream = stream /\ t[k].Gender = g}
         IN IF gender_df = {}
            THEN ExportFrom(book, Tail(pairs), t, houseCol)
            ELSE ExportFrom(WriteSheet(book, SheetName(stream, g),
                                       SortByHouse(gender_df, houseCol)),
                            Tail(pairs), t, houseCol)
get_excel_download(t, houseCol) == ExportFrom(<<>>, ExportPairs(t), t, houseCol)

\* ----------------------------------------------------------------- filters
\* if selected: filtered = filtered[filtered[col].isin(selected)]
FilterDimAlways(t, rows, col, sel) == {k \in rows : t[k][col] \in sel}
FilterDim(t, rows, col, sel) ==
    IF sel /= {} THEN {k \in rows : t[k][col] \in sel} ELSE rows
FilterRows(t, sel) ==
    FilterDim(t, FilterDim(t, FilterDim(t, 1..Len(t), "Stream", sel.streams),
                           "Semester", sel.sems),
              "Gender", sel.genders)
\* The options the three multiselects offer.
Selections(t) ==
    [streams : SUBSET {t[k].Stream : k \in 1..Len(t)},
     sems : SUBSET {t[k].Semester : k \in 1..Len(t)},
     genders : SUBSET {"M", "F"}]
\* Visualize: stream multiselect and the All / M / F selectbox.
VizSelections(t) ==
    [streams : SUBSET {t[k].Stream : k \in 1..Len(t)},
     sems : {{}},
     genders : {{}, {"M"}, {"F"}}]

\* ---------------------------------------------------------- verify_password
verify_passwordPrefix(pw) ==
    [ok |-> pw = SubSeq(correct_password, 1, Min(Len(pw), Len(correct_password)))
            /\ pw /= "",
     msgs |-> IF pw /= correct_password /\ pw /= "" THEN {"Incorrect password."} ELSE {}]
verify_password(pw) ==
    [ok |-> pw = correct_password,
     msgs |-> IF pw /= correct_password /\ pw /= "" THEN {"Incorrect password."} ELSE {}]

\* -------------------------------------------------------------------- main
\* os.path.exists(DATA_FOLDER)
FolderFound(exists) == exists
\* required_cols.issubset(df.columns)
ColumnsPresentAlways(cols) == TRUE
ColumnsPresent(cols) == required_cols \subseteq cols
\* global_house_counts = {"M": defaultdict(int), "F": defaultdict(int)}
FreshCountsKept(old) == old
FreshCounts(old) == ZeroCounts

\* The script has run to its end (or died of an uncaught exception) and the
\* session waits for the next interaction: nothing of the run's frame is
\* kept.  The counters object is shown as the run left it, so that a later
\* run reading it instead of building its own would be seen.
RunEnds ==
    /\ pc \in {"done", "raised"}
    /\ pc' = "ready"
    /\ assigned_df' = <<>>
    /\ groups' = <<>>
    /\ password' = ""
    /\ granted' = "unevaluated"
    /\ shown' = {}
    /\ page' = "none"
    /\ selected' = NoSelection
    /\ filtered' = {}
    /\ workbook' = <<>>
    /\ prev_counts' = global_house_counts
    /\ UNCHANGED <<dirExists, columns, df, menu, global_house_counts, start_counts,
                   students, house_order, i, gender>>

\* A user interaction starts a run of main() from the top.
RunStarts ==
    /\ pc = "ready"
    /\ workbook' = <<>>
    /\ UNCHANGED <<dirExists, columns, df, prev_counts>>

NoAssign ==
    /\ groups' = <<>>
    /\ assigned_df' = <<>>
    /\ UNCHANGED <<global_house_counts, start_counts, students, house_order, i, gender>>

\* Lines 205-207.
MainNoFolder ==
    /\ RunStarts
    /\ filtered' = {}
    /\ selected' = NoSelection
    /\ ~FolderFound(dirExists)
    /\ shown' = {"Data folder not found."}
    /\ page' = "none"
    /\ pc' = "done"
    /\ password' = ""
    /\ granted' = "unevaluated"
    /\ NoAssign
    /\ UNCHANGED menu

\* Lines 209-214.
MainMissingColumns ==
    /\ RunStarts
    /\ filtered' = {}
    /\ selected' = NoSelection
    /\ FolderFound(dirExists)
    /\ ~ColumnsPresent(columns)
    /\ shown' = {"Missing required columns."}
    /\ page' = "none"
    /\ pc' = "done"
    /\ password' = ""
    /\ granted' = "unevaluated"
    /\ NoAssign
    /\ UNCHANGED menu

\* Lines 217-223: either assigning page builds its counters and calls
\* assign_houses.
MainAssigningPage(m) ==
    /\ RunStarts
    /\ FolderFound(dirExists)
    /\ ColumnsPresent(columns)
    /\ menu' = m
    /\ EnterAssign(df, FreshCounts(global_house_counts))
    /\ filtered' = {}
    /\ selected' = NoSelection
    /\ shown' = {}
    /\ page' = "none"
    /\ pc' = "assign"
    /\ password' = ""
    /\ granted' = "unevaluated"
MainHouseDistribution == MainAssigningPage("House Distribution")
MainVisualize == MainAssigningPage("Visualize")

\* Lines 225-229 with view_data_page (lines 80-104): the gate, then the raw
\* view.  The column multiselect's default names "Email-ID"; a default that
\* is not among the options makes the widget raise.
MainViewData ==
    /\ RunStarts
    /\ FolderFound(dirExists)
    /\ ColumnsPresent(columns)
    /\ menu' = "View Data"
    /\ NoAssign
    /\ \E pw \in Passwords :
          LET v == verify_password(pw)
          IN /\ password' = pw
             /\ granted' = (IF v.ok THEN "granted" ELSE "denied")
             /\ IF ~v.ok
                THEN /\ shown' = v.msgs \cup {"Access denied."}
                     /\ page' = "none"
                     /\ pc' = "done"
                     /\ filtered' = {}
                     /\ selected' = NoSelection
                ELSE IF ~(default_cols \subseteq columns)
                THEN /\ shown' = v.msgs \cup {"StreamlitAPIException"}
                     /\ page' = "none"
                     /\ pc' = "raised"
                     /\ filtered' = {}
                     /\ selected' = NoSelection
                ELSE /\ shown' = v.msgs
                     /\ page' = "view"
                     /\ pc' = "done"
                     /\ \E sel \in Selections(df) :
                           /\ selected' = sel
                           /\ filtered' = FilterRows(df, sel)

\* house_distribution_page after the assignment (lines 113-142): the workbook
\* is built for the download button, then the filtered table is shown.  A
\* workbook no sheet was written to cannot be saved: the writer raises.
HouseDistributionPage ==
    /\ pc = "assigned"
    /\ menu = "House Distribution"
    /\ LET book == get_excel_download(df, assigned_df)
       IN /\ workbook' = book
          /\ IF DOMAIN book = {}
             THEN /\ shown' = shown \cup {"IndexError"}
                  /\ pc' = "raised"
                  /\ UNCHANGED <<page, selected, filtered>>
             ELSE /\ pc' = "done"
                  /\ page' = "house"
                  /\ UNCHANGED shown
                  /\ \E sel \in Selections(df) :
                        /\ selected' = sel
                        /\ filtered' = FilterRows(df, sel)
    /\ UNCHANGED <<dirExists, columns, df, menu, global_house_counts, start_counts,
                   prev_counts, assigned_df, groups, students, house_order, i, gender, password,
                   granted>>

\* visualize_page (lines 146-198): the House column is always there; an empty
\* selection result shows a warning in place of the charts.
VisualizePage ==
    /\ pc = "assigned"
    /\ menu = "Visualize"
    /\ \E sel \in VizSelections(df) :
          /\ selected' = sel
          /\ filtered' = FilterRows(df, sel)
          /\ IF FilterRows(df, sel) = {}
             THEN /\ shown' = shown \cup {"No data available for selected filters."}
                  /\ page' = "none"
             ELSE /\ page' = "viz"
                  /\ UNCHANGED shown
    /\ pc' = "done"
    /\ UNCHANGED <<dirExists, columns, df, menu, global_house_counts, start_counts,
                   prev_counts, assigned_df, groups, students, house_order, i, gender, password,
                   granted, workbook>>

\* The data folder as the runs find it: absent; present without a workbook
\* (an empty table); present with a table that lacks the Student Name
\* column; or present with a complete table, with or without Email-ID.
ColumnSets ==
    {{}, required_cols \ {"Student Name"}, required_cols, required_cols \cup {"Email-ID"}}
Init ==
    /\ dirExists \in BOOLEAN
    /\ columns \in IF dirExists THEN ColumnSets ELSE {{}}
    /\ df \in IF {"Stream", "Semester", "Gender"} \subseteq columns
              THEN Tables(AppKinds, MaxRows) ELSE {<<>>}
    /\ pc = "ready"
    /\ menu = "House Distribution"
    /\ global_house_counts = ZeroCounts
    /\ start_counts = ZeroCounts
    /\ prev_counts = ZeroCounts
    /\ assigned_df = <<>>
    /\ groups = <<>>
    /\ students = <<>>
    /\ house_order = <<>>
    /\ i = 0
    /\ gender = None
    /\ password = ""
    /\ granted = "unevaluated"
    /\ shown = {}
    /\ page = "none"
    /\ selected = NoSelection
    /\ filtered = {}
    /\ workbook = <<>>

Next ==
    \/ MainNoFolder
    \/ MainMissingColumns
    \/ MainHouseDistribution
    \/ MainVisualize
    \/ MainViewData
    \/ AssignBeginGroup
    \/ AssignKeyError
    \/ AssignOne
    \/ AssignReturn
    \/ HouseDistributionPage
    \/ VisualizePage
    \/ RunEnds
Spec == Init /\ [][Next]_vars

\* =================================================================== claims
Abs(n) == IF n < 0 THEN -n ELSE n
Rows == 1..Len(df)
\* Every (Stream, Semester, Gender) combination some row of the table has.
TableGroups == {<<df[k].Stream, df[k].Semester, df[k].Gender>> : k \in Rows}
\* The rows of a group that the assigned table puts in house h.
GroupHouseCount(key, h) ==
    Cardinality({k \in GroupIndex(df, key) : assigned_df[k] = h})
\* The rows of one gender that have house h so far.
GenderHouseCount(g, h) ==
    Cardinality({k \in Rows : df[k].Gender = g /\ assigned_df[k] = h})
Returned == pc = "assigned"

\* C1: once assign_houses has returned, within every (Stream, Semester,
\* Gender) group of the table the numbers of rows given to any two houses
\* differ by at most 1, whatever the group sizes, the shuffle and the
\* counters the call started with.
C1_GroupBalance ==
    Returned =>
        \A key \in TableGroups : \A h1, h2 \in Houses :
            Abs(GroupHouseCount(key, h1) - GroupHouseCount(key, h2)) <= 1
\* A returned call that started from unequal counters and assigned a group of
\* more than four rows, so that the cycle came round.
C1_Witness ==
    /\ Returned
    /\ \E h1, h2 \in Houses : start_counts["M"][h1] /= start_counts["M"][h2]
    /\ \E key \in TableGroups :
          /\ Cardinality(GroupIndex(df, key)) > NumHouses
          /\ \E h \in Houses : GroupHouseCount(key, h) = 2

\* C2: once assign_houses has returned, every row of the table has a House,
\* and it is one of the four configured labels.
C2_EveryRowHoused ==
    Returned => \A k \in Rows : assigned_df[k] \in Houses

\* C3: the gate grants access, and the raw view is rendered, only when the
\* entered string is exactly the configured password; another non-empty
\* string is denied with the "Incorrect password." error; the empty string
\* is denied without that error; whatever the runs before.
C3_Gate ==
    (pc \in {"done", "raised"} /\ granted /= "unevaluated") =>
        /\ (granted = "granted") <=> (password = correct_password)
        /\ (page = "view") => (password = correct_password)
        /\ (password /= correct_password /\ password /= "") =>
               (granted = "denied" /\ "Incorrect password." \in shown)
        /\ (password = "") =>
               (granted = "denied" /\ "Incorrect password." \notin shown)
        /\ (password = correct_password) => ("Incorrect password." \notin shown)
\* A second or later run in which the exact password opened the raw view.
C3_Witness ==
    /\ pc = "done"
    /\ granted = "granted"
    /\ page = "view"
    /\ prev_counts /= ZeroCounts

\* C4: in the raw view and in the assignment view the table shown holds
\* exactly the rows that, on each of Stream, Semester and Gender, either face
\* an empty selection or have their value in the selection.
C4_Filter ==
    (pc = "done" /\ page \in {"view", "house"}) =>
        filtered = {k \in Rows :
                       /\ selected.streams = {} \/ df[k].Stream \in selected.streams
                       /\ selected.sems = {} \/ df[k].Semester \in selected.sems
                       /\ selected.genders = {} \/ df[k].Gender \in selected.genders}
\* The assignment view with one dimension left empty and two selected, which
\* shows some rows and hides others.
C4_Witness ==
    /\ pc = "done"
    /\ page = "house"
    /\ selected.sems = {}
    /\ selected.streams /= {}
    /\ selected.genders /= {}
    /\ filtered /= {}
    /\ filtered /= Rows

\* What reading every worksheet of the workbook back gives, and the mapping
\* the assigned table holds.
ReadBack(book) == UNION {Range(book[n]) : n \in DOMAIN book}
InMemory == {<<EnrollmentNo(k), assigned_df[k]>> : k \in Rows}
\* C5: the workbook built from the assigned table, read back, gives the same
\* (Enrollment No, House) pairs as the assigned table.  Stated here for the
\* rosters without a blank Semester or Gender cell.
C5_RoundTrip ==
    (/\ pc = "done"
     /\ page = "house"
     /\ \A k \in Rows : df[k].Semester /= NaN /\ df[k].Gender \in CounterGenders)
        => ReadBack(workbook) = InMemory

\* C6: when the data folder is missing or the table lacks a required column,
\* the run shows the error and stops: no assignment, no page, no workbook,
\* the gate never evaluated; and so for every later run.
C6_FatalGuards ==
    (pc /= "ready" /\ (~dirExists \/ ~(required_cols \subseteq columns))) =>
        /\ pc = "done"
        /\ shown = (IF ~dirExists THEN {"Data folder not found."}
                    ELSE {"Missing required columns."})
        /\ assigned_df = <<>>
        /\ groups = <<>>
        /\ global_house_counts = ZeroCounts
        /\ page = "none"
        /\ workbook = <<>>
        /\ granted = "unevaluated"
\* A run over a folder whose table has rows but lacks a required column.
C6_Witness ==
    /\ pc = "done"
    /\ dirExists
    /\ ~(required_cols \subseteq columns)
    /\ Len(df) = MaxRows
    /\ shown = {"Missing required columns."}

\* The table of the scenario: one stream, one semester, 2 M and 2 F.
TwoAndTwo ==
    /\ Len(df) = 4
    /\ \A a, b \in Rows : df[a].Stream = df[b].Stream /\ df[a].Semester = df[b].Semester
    /\ Cardinality({k \in Rows : df[k].Gender = "M"}) = 2
    /\ Cardinality({k \in Rows : df[k].Gender = "F"}) = 2
\* C7: that table, assigned from all-zero counters: every student has a
\* house, the two of each gender are in different houses, and exactly two
\* houses are used, whatever the shuffle.
C7_Scenario ==
    (Returned /\ TwoAndTwo /\ start_counts = ZeroCounts) =>
        /\ \A k \in Rows : assigned_df[k] \in Houses
        /\ \A a, b \in Rows :
              (a /= b /\ df[a].Gender = df[b].Gender) => assigned_df[a] /= assigned_df[b]
        /\ Cardinality({assigned_df[k] : k \in Rows}) = 2
C7_Witness == Returned /\ TwoAndTwo /\ start_counts = ZeroCounts

\* C8: in a pass started from all-zero counters, after every assignment the
\* four counters of a gender differ by at most 1, and each equals the number
\* of rows of that gender given that house so far.
C8_GlobalBalance ==
    (pc \in {"assign", "assigned"} /\ start_counts = ZeroCounts) =>
        \A g \in CounterGenders :
            /\ \A h1, h2 \in Houses :
                  Abs(global_house_counts[g][h1] - global_house_counts[g][h2]) <= 1
            /\ \A h \in Houses : global_house_counts[g][h] = GenderHouseCount(g, h)
\* Inside the second group of a gender, the first having left the counters
\* unequal, with a counter already at 2.
C8_Witness ==
    /\ pc = "assign"
    /\ start_counts = ZeroCounts
    /\ gender = "M"
    /\ 0 < i
    /\ \E k \in Rows : df[k].Gender = "M" /\ df[k].Semester = "1"
    /\ \E k \in Rows : df[k].Gender = "M" /\ df[k].Semester = "2" /\ assigned_df[k] /= None
    /\ house_order /= HouseSeq
    /\ \E h \in Houses : global_house_counts["M"][h] = 2

\* C9: every call of assign_houses starts from all-zero counters, whatever
\* the runs before it left.
C9_FreshCounters ==
    (pc \in {"assign", "assigned"}) => start_counts = ZeroCounts
\* A call made after an earlier run had left counters that are not zero.
C9_Witness ==
    /\ pc = "assign"
    /\ prev_counts /= ZeroCounts
    /\ Len(df) > 0
    /\ \A k \in Rows : assigned_df[k] = None
    /\ global_house_counts = ZeroCounts

\* order lists the four houses by ascending counter c, equal counters in
\* palette order.
AscendingOrder(order, c) ==
    /\ Len(order) = NumHouses
    /\ Range(order) = Houses
    /\ \A a, b \in 1..NumHouses :
          a < b => \/ c[order[a]] < c[order[b]]
                   \/ /\ c[order[a]] = c[order[b]]
                      /\ Pos(HouseSeq, order[a]) < Pos(HouseSeq, order[b])
\* C10: the visiting order is fixed when a group starts, as the houses by
\* ascending counter of the group's gender with ties in palette order; the
\* i-th shuffled row gets the house at place i mod 4 of it; each assignment
\* adds exactly 1 to that gender's counter of that house and changes no
\* other counter.
C10_RoundRobin ==
    [][/\ (pc = "assign" /\ groups' /= groups) =>
              AscendingOrder(house_order', global_house_counts[gender'])
       /\ (pc = "assign" /\ i' = i + 1) =>
              /\ house_order' = house_order
              /\ gender' = gender
              /\ \E h \in Houses :
                    /\ h = house_order[(i % 4) + 1]
                    /\ assigned_df' = [assigned_df EXCEPT ![students[i + 1]] = h]
                    /\ \A g \in CounterGenders : \A o \in Houses :
                          global_house_counts'[g][o] =
                              global_house_counts[g][o]
                                  + (IF g = gender /\ o = h THEN 1 ELSE 0)]_vars
\* The fifth row of a group has its house, the order being one that unequal,
\* non-adjacent ties of the starting counters produce.
C10_Witness ==
    /\ pc = "assign"
    /\ i = 5
    /\ house_order = <<"House B", "House D", "House A", "House C">>
    /\ assigned_df[students[5]] = "House B"
====
